---- MODULE Spec2Model ----
(***************************************************************************)
(* Claim coordination core of the cleaning-service API                     *)
(* (src/api/server.py, src/models/cleaning.py, src/start.py).              *)
(*                                                                         *)
(* Every handler opens its own sqlite3 connection (Database._get_connection)*)
(* on the same database file.  sqlite3 opens a write transaction before the *)
(* first INSERT/UPDATE/DELETE of a connection and keeps it until commit(),  *)
(* rollback() or close(); the database admits one write transaction at a    *)
(* time, and a second writer waits at its statement.  Uncommitted rows are   *)
(* visible to the connection that wrote them only.                           *)
(*                                                                         *)
(* The requests are taken to run concurrently on that file (the setting the *)
(* order_locks table is written for), each a sequence of SQL statements.    *)
(* A statement of the guarded region of _verify_accept_order may raise      *)
(* (sqlite3.OperationalError "database is locked", I/O errors).             *)
(***************************************************************************)
EXTENDS Integers, FiniteSets, Sequences, TLC

\* ------------------------------------------------------------------ bounds
NumCallers == 2     \* concurrent verify-accept requests
MaxTime == 4        \* clock horizon, in units of TickStep seconds
MaxOrderId == 3     \* highest id POST /api/orders hands out

\* ------------------------------------------------------- program constants
ttl == 30           \* Cache(ttl=30)
window == 60        \* IdempotencyChecker._window
TickStep == 15      \* seconds per clock tick of the model

Callers == 1..NumCallers
OrderIds == {1}      \* ids of the order rows present at start
Readers == {"r1"}
NoCaller == 0
NoCleaner == 0

valid_statuses == {"open", "accepted", "arrived", "completed", "cancelled"}

\* ------------------------------------------------------------ request data
\* A JSON value of the request body: None/absent, a string or an integer.
\* Integers are carried by their decimal digits.
NoneVal == [t |-> "none", v |-> ""]
StrVal(s) == [t |-> "str", v |-> s]
IntVal(s) == [t |-> "int", v |-> s]

Body(c, k) == [cleaner_id |-> c, code |-> k]

\* Request bodies of POST /api/orders/<id>/verify-accept that pass the checks
\* of lines 753-778: workers 1 and 2 with their codes, as JSON numbers or strings.
ValidBodies ==
    {Body(IntVal("1"), StrVal("123456")),
     Body(StrVal("1"), IntVal("123456")),
     Body(IntVal("2"), StrVal("654321"))}

\* Bodies that fail them: a field absent, empty or zero, a cleaner_id that is
\* no number, an unknown cleaner, another worker's code.
InvalidBodies ==
    {Body(NoneVal, StrVal("123456")),
     Body(IntVal("1"), NoneVal),
     Body(IntVal("2"), StrVal("")),
     Body(IntVal("0"), StrVal("123456")),
     Body(StrVal("abc"), StrVal("123456")),
     Body(IntVal("9"), StrVal("123456")),
     Body(IntVal("1"), StrVal("654321")),
     Body(StrVal("2"), IntVal("123456"))}

Bodies == ValidBodies \cup InvalidBodies

\* Python truthiness of a JSON value (`not x`).
Falsy(x) == x.t = "none" \/ (x.t = "str" /\ x.v = "") \/ (x.t = "int" /\ x.v = "0")

\* Python str(x).
Str(x) == IF x.t = "none" THEN "None" ELSE x.v

\* Python int(x) on the values above: the digits' number; ValueError on "abc".
Digits == [d \in {"0", "1", "2", "9"} |-> CASE d = "0" -> 0 [] d = "1" -> 1 [] d = "2" -> 2 [] d = "9" -> 9]
IsNumeric(x) == x.v \in DOMAIN Digits
ToInt(x) == Digits[x.v]

\* The cleaners table (id -> code), owned by the worker collaborator.
cleaners == [i \in {1, 2} |-> IF i = 1 THEN StrVal("123456") ELSE StrVal("654321")]

\* ----------------------------------------------------------------- results
\* The response of a request: the HTTP status APIHandler sends and the message
\* (the status suffix of "Order already taken (status: ...)" is left out).
Result(c, m) == [code |-> c, msg |-> m]
NoResult == Result(0, "")
Accepted == Result(200, "Order accepted")
RequiredErr == Result(400, "cleaner_id and code required")
InvalidCleanerId == Result(400, "Invalid cleaner_id")
CleanerNotFound == Result(404, "Cleaner not found")
InvalidCode == Result(400, "Invalid code")
BeingProcessed == Result(409, "Order already being processed")
OrderNotFound == Result(404, "Order not found")
AlreadyTaken == Result(409, "Order already taken")
FailedToGrab == Result(409, "Failed to grab order")
InternalErr == Result(500, "exception")
Created == Result(200, "Order created")
PropertyIdRequired == Result(400, "property_id required")
CheckoutTimeRequired == Result(400, "checkout_time required")
PriceNotPositive == Result(400, "price must be greater than 0")
Duplicate == Result(409, "Duplicate request")
PropertyNotFound == Result(404, "Property not found")

\* ------------------------------------------------- POST /api/orders bodies
\* The fields _create_order looks at. key "" is an absent or empty
\* _idempotency_key, property_id 0 and checkout_time "" are absent fields,
\* price 0 is an absent price (validate_order defaults it to 0).
OrderData(k, prop, t, pr) == [key |-> k, property_id |-> prop, checkout_time |-> t, price |-> pr]
NoOrderData == OrderData("", 0, "", 0)
Creators == {"c1", "c2"}
CreateBodies ==
    {OrderData("k1", 1, "11:00", 100),
     OrderData("k2", 1, "11:00", 100),
     OrderData("", 1, "11:00", 100),
     OrderData("k1", 9, "11:00", 100),
     OrderData("k1", 0, "11:00", 100),
     OrderData("k1", 1, "", 100),
     OrderData("k1", 1, "11:00", 0)}

\* The ids of the properties table.
properties == {1}

\* Validator.validate_order
validate_order(data) ==
    IF data.property_id = 0 THEN PropertyIdRequired
    ELSE IF data.checkout_time = "" THEN CheckoutTimeRequired
    ELSE IF data.price <= 0 THEN PriceNotPositive
    ELSE NoResult

VARIABLES
    orders,        \* committed orders table: id -> row
    order_locks,   \* committed order_locks table: set of order ids
    writer,        \* caller whose connection holds the write transaction, or NoCaller
    txn,           \* that connection's uncommitted view [orders, order_locks]
    pc,            \* position of each verify-accept request
    order_id,      \* its order id
    cleaner_id,    \* its int(cleaner_id)
    rowcount,      \* its cursor.rowcount
    result,        \* its response
    obs,           \* observer of each request: [kind, env]
    cache,         \* Cache._cache: key "stats" -> [value, timestamp]
    now,           \* time.time(), in ticks
    rpc,           \* position of each /api/stats request
    rval,          \* its local `stats` / response
    robs,          \* observer: the store's counts when that response was produced
    found,         \* observer: what the cache.get of a request past its miss found
    synced,        \* observer: no stats value read before the last uncleared change of the counts is cached or in flight
    keys,          \* IdempotencyChecker._keys: key -> timestamp
    next_id,       \* id the next INSERT INTO orders gets (AUTOINCREMENT)
    cpc,           \* position of each POST /api/orders request
    cbody,         \* its body: [key, property_id]
    cnow,          \* its `now` in IdempotencyChecker.check
    cres,          \* its response
    seen           \* observer: key -> [passed: clock of the last check that returned True,
                   \*                   created: an order was inserted under the key since]

vars == <<orders, order_locks, writer, txn, pc, order_id, cleaner_id, rowcount,
          result, obs, cache, now, rpc, rval, robs, found, synced, keys, next_id, cpc, cbody,
          cnow, cres, seen>>

\* ------------------------------------------------------------- SQL helpers
Row(s, c, t) == [status |-> s, assigned_cleaner_id |-> c, assigned_at |-> t]
NULL == <<>>
NoTxn == [orders |-> <<>>, order_locks |-> {}]

\* The connection's wait for the database write lock: a statement that writes
\* runs when no other connection holds the write transaction.
CanWrite(p) == writer = NoCaller \/ writer = p

\* INSERT OR IGNORE INTO order_locks (order_id) VALUES (?)
InsertOrIgnoreLock(locks, o) ==
    [order_locks |-> locks \cup {o}, rowcount |-> IF o \in locks THEN 0 ELSE 1]

\* The rowcount test left out: every INSERT OR IGNORE counts as an acquisition.
LockNeverIgnored(rc) == FALSE

\* if cursor.rowcount == 0
LockIgnored(rc) == rc = 0

\* The DELETE left out before the commit.
DeleteLockSkipped(locks, o) == locks

\* DELETE FROM order_locks WHERE order_id = ?
DeleteLock(locks, o) == locks \ {o}

\* The status test left out: every order read under the lock counts as open.
StatusUnchecked(s) == TRUE

\* if row[0] != 'open'
StatusIsOpen(s) == s = "open"

\* The same UPDATE without "AND status = 'open'".
UpdateToAcceptedAnyStatus(ords, o, c, t) ==
    IF o \in DOMAIN ords
    THEN [orders |-> [ords EXCEPT ![o] = Row("accepted", c, <<t>>)], rowcount |-> 1]
    ELSE [orders |-> ords, rowcount |-> 0]

\* UPDATE orders SET assigned_cleaner_id = ?, status = 'accepted',
\*   assigned_at = CURRENT_TIMESTAMP WHERE id = ? AND status = 'open'
UpdateOpenToAccepted(ords, o, c, t) ==
    IF o \in DOMAIN ords /\ ords[o].status = "open"
    THEN [orders |-> [ords EXCEPT ![o] = Row("accepted", c, <<t>>)], rowcount |-> 1]
    ELSE [orders |-> ords, rowcount |-> 0]

\* if result and result[0] == 'accepted' and result[1] == cleaner_id
RecheckOk(ords, o, c) ==
    /\ o \in DOMAIN ords
    /\ ords[o].status = "accepted"
    /\ ords[o].assigned_cleaner_id = c

\* UPDATE orders SET status = ? WHERE id = ?
SetStatus(ords, o, s) ==
    IF o \in DOMAIN ords THEN [ords EXCEPT ![o].status = s] ELSE ords

\* The code comparison left out.
CodeAlwaysMatches(stored, code) == TRUE

\* str(row["code"]) != str(code)
CodeMatches(stored, code) == Str(stored) = Str(code)

\* The same checks with an unknown cleaner answered like a wrong code.
CheckCredentialsUnknownAsMismatch(c, k) ==
    IF Falsy(c) \/ Falsy(k) THEN RequiredErr
    ELSE IF ~IsNumeric(c) THEN InvalidCleanerId
    ELSE IF ToInt(c) \notin DOMAIN cleaners THEN InvalidCode
    ELSE IF ~CodeMatches(cleaners[ToInt(c)], k) THEN InvalidCode
    ELSE NoResult

\* Lines 753-778 of _verify_accept_order: NoResult when the request passes.
CheckCredentials(c, k) ==
    IF Falsy(c) \/ Falsy(k) THEN RequiredErr
    ELSE IF ~IsNumeric(c) THEN InvalidCleanerId
    ELSE IF ToInt(c) \notin DOMAIN cleaners THEN CleanerNotFound
    ELSE IF ~CodeMatches(cleaners[ToInt(c)], k) THEN InvalidCode
    ELSE NoResult

\* CleaningRepository.get_stats (the counts that depend on orders).
get_stats(ords) ==
    [pending_jobs |-> Cardinality({o \in DOMAIN ords : ords[o].status = "open"}),
     completed_today |-> Cardinality({o \in DOMAIN ords : ords[o].status = "completed"})]

\* ---------------------------------------------------------------- observer
\* What a request was, told from its body alone (independent of the checks
\* the handler makes).
Missing(x) == x = NoneVal \/ x = StrVal("")
KnownWorker(c) == c.v \in {"1", "2"}
StoredDigits(c) == IF c.v = "1" THEN "123456" ELSE "654321"
NumberedWorker(c) == c.v \in {"1", "2", "9"}
Kind(c, k) ==
    IF Missing(c) \/ Missing(k) THEN "missing"
    ELSE IF NumberedWorker(c) /\ ~KnownWorker(c) THEN "unknown"
    ELSE IF ~KnownWorker(c) THEN "other"
    ELSE IF k.v = StoredDigits(c) THEN "ok"
    ELSE "mismatch"

InFlight(q) == pc[q] \notin {"idle", "done"}

\* Whether a request that begins now finds order o locked by another one.
At(o) ==
    IF o \in order_locks \/ (writer # NoCaller /\ o \in txn.order_locks) THEN "locked"
    ELSE ""
Failed(r) == r.code \in {400, 404, 409}

\* The observer of the requests in flight after another request begins.
ObsAfterEntry(p, o, c, k) ==
    [q \in Callers |->
        IF q = p
        THEN [kind |-> Kind(c, k),
              at |-> IF CheckCredentials(c, k) # NoResult THEN At(o) ELSE "",
              env |-> IF CheckCredentials(c, k) # NoResult THEN ""
                      ELSE IF /\ \A r \in Callers \ {p} : ~InFlight(r)
                              /\ o \in DOMAIN orders
                              /\ orders[o].status = "open"
                              /\ \E r \in Callers \ {p} :
                                    /\ pc[r] = "done"
                                    /\ order_id[r] = o
                                    /\ Failed(result[r])
                      THEN "after_failure"
                      ELSE "plain"]
        ELSE IF InFlight(q) /\ obs[q].env = "after_failure"
             THEN [obs[q] EXCEPT !.env = "plain"]
             ELSE obs[q]]

\* The observer after a write to the orders table by another handler.
ObsAfterWrite(new) ==
    [q \in Callers |->
        LET o == order_id[q] IN
        IF ~InFlight(q) THEN obs[q]
        ELSE IF o \in DOMAIN orders /\ o \in DOMAIN new /\ new[o] = orders[o] THEN obs[q]
        ELSE IF o \notin DOMAIN orders /\ o \notin DOMAIN new THEN obs[q]
        ELSE IF /\ pc[q] = "acquire"
                /\ o \in DOMAIN orders /\ orders[o].status = "open"
                /\ o \in DOMAIN new /\ new[o].status # "open"
             THEN [obs[q] EXCEPT !.env = "raced"]
             ELSE [obs[q] EXCEPT !.env = "plain"]]

NoObs == [kind |-> "", at |-> "", env |-> ""]

\* ---------------------------------------------------------------- initially
Init ==
    /\ orders = [o \in OrderIds |-> Row("open", NoCleaner, NULL)]
    /\ order_locks = {}
    /\ writer = NoCaller
    /\ txn = NoTxn
    /\ pc = [p \in Callers |-> "idle"]
    /\ order_id = [p \in Callers |-> 0]
    /\ cleaner_id = [p \in Callers |-> NoCleaner]
    /\ rowcount = [p \in Callers |-> -1]
    /\ result = [p \in Callers |-> NoResult]
    /\ obs = [p \in Callers |-> NoObs]
    /\ cache = <<>>
    /\ now = 0
    /\ rpc = [r \in Readers |-> "idle"]
    /\ rval = [r \in Readers |-> <<>>]
    /\ robs = [r \in Readers |-> <<>>]
    /\ found = [r \in Readers |-> ""]
    /\ synced = TRUE
    /\ keys = <<>>
    /\ next_id = 2
    /\ cpc = [c \in Creators |-> "idle"]
    /\ cbody = [c \in Creators |-> NoOrderData]
    /\ cnow = [c \in Creators |-> 0]
    /\ cres = [c \in Creators |-> NoResult]
    /\ seen = <<>>

dbvars == <<orders, order_locks, writer, txn>>

\* The observer `synced` at a commit that makes the orders table `new` and
\* clears no cache: it stays when the counts stay, and when there is no stats
\* value that the change could outdate (nothing cached, no /api/stats request
\* between its get_stats() and its cache.set).
StaysSynced(new) ==
    \/ cache = <<>> /\ \A r \in Readers : rpc[r] # "set"
    \/ synced /\ get_stats(new) = get_stats(orders)
createvars == <<keys, next_id, cpc, cbody, cnow, cres, seen>>
claimvars == <<pc, order_id, cleaner_id, rowcount, result, obs>>
statsvars == <<cache, now, rpc, rval, robs, found>>

\* ------------------------------------------- _verify_accept_order, by steps
\* The request returns r; its locals are gone.
Return(p, r) ==
    /\ pc' = [pc EXCEPT ![p] = "done"]
    /\ result' = [result EXCEPT ![p] = r]
    /\ cleaner_id' = [cleaner_id EXCEPT ![p] = NoCleaner]
    /\ rowcount' = [rowcount EXCEPT ![p] = -1]

\* The request moves on to the statement at `to`, its cursor.rowcount now rc.
Goto(p, to, rc) ==
    /\ pc' = [pc EXCEPT ![p] = to]
    /\ rowcount' = [rowcount EXCEPT ![p] = rc]
    /\ UNCHANGED <<cleaner_id, result>>

\* Lines 753-778: parameters and credentials, for the body `data`.
VerifyAccept(p, o, data) ==
    LET r == CheckCredentials(data.cleaner_id, data.code) IN
    /\ order_id' = [order_id EXCEPT ![p] = o]
    /\ obs' = ObsAfterEntry(p, o, data.cleaner_id, data.code)
    /\ IF r = NoResult
       THEN /\ pc' = [pc EXCEPT ![p] = "acquire"]
            /\ cleaner_id' = [cleaner_id EXCEPT ![p] = ToInt(data.cleaner_id)]
            /\ result' = [result EXCEPT ![p] = NoResult]
            /\ rowcount' = [rowcount EXCEPT ![p] = -1]
       ELSE Return(p, r)
    /\ UNCHANGED <<dbvars, statsvars>>
    /\ UNCHANGED <<synced, createvars>>

\* A request arrives on a free handler.
Entry(p) ==
    /\ pc[p] \in {"idle", "done"}
    /\ \E o \in OrderIds, data \in Bodies : VerifyAccept(p, o, data)

\* Lines 781-789: INSERT OR IGNORE into order_locks on a new connection;
\* close (and so roll back) when the row was there.
Acquire(p) ==
    /\ pc[p] = "acquire"
    /\ CanWrite(p)
    /\ LET ins == InsertOrIgnoreLock(order_locks, order_id[p]) IN
       IF LockIgnored(ins.rowcount)
       THEN /\ writer' = NoCaller
            /\ txn' = NoTxn
            /\ Return(p, BeingProcessed)
       ELSE /\ writer' = p
            /\ txn' = [orders |-> orders, order_locks |-> ins.order_locks]
            /\ Goto(p, "read", ins.rowcount)
    /\ UNCHANGED <<orders, order_locks, order_id, obs, statsvars>>
    /\ UNCHANGED <<synced, createvars>>

\* DELETE the lock row, commit and close, then return r (lines 796-799,
\* 802-805, 821-824).
ReleaseAndReturn(p, r) ==
    /\ orders' = txn.orders
    /\ order_locks' = DeleteLock(txn.order_locks, order_id[p])
    /\ writer' = NoCaller
    /\ txn' = NoTxn
    /\ Return(p, r)

\* Lines 793-805: SELECT status under the lock.
ReadStatus(p) ==
    /\ pc[p] = "read"
    /\ LET o == order_id[p] IN
       IF o \notin DOMAIN txn.orders
       THEN ReleaseAndReturn(p, OrderNotFound)
       ELSE IF ~StatusIsOpen(txn.orders[o].status)
       THEN ReleaseAndReturn(p, AlreadyTaken)
       ELSE /\ Goto(p, "update", -1)
            /\ UNCHANGED dbvars
    /\ UNCHANGED <<order_id, obs, statsvars>>
    /\ UNCHANGED <<synced, createvars>>

\* Lines 808-812: the conditional UPDATE.
Update(p) ==
    /\ pc[p] = "update"
    /\ LET u == UpdateOpenToAccepted(txn.orders, order_id[p], cleaner_id[p], now) IN
       /\ txn' = [txn EXCEPT !.orders = u.orders]
       /\ Goto(p, "recheck", u.rowcount)
    /\ UNCHANGED <<orders, order_locks, writer, order_id, obs, statsvars>>
    /\ UNCHANGED <<synced, createvars>>

\* Lines 815-824: SELECT the row back; commit, or release and report 409.
Recheck(p) ==
    /\ pc[p] = "recheck"
    /\ IF RecheckOk(txn.orders, order_id[p], cleaner_id[p])
       THEN /\ orders' = txn.orders
            /\ order_locks' = txn.order_locks
            /\ writer' = NoCaller
            /\ txn' = NoTxn
            /\ Goto(p, "release", -1)
       ELSE ReleaseAndReturn(p, FailedToGrab)
    /\ UNCHANGED <<order_id, obs, statsvars>>
    /\ synced' = StaysSynced(orders')
    /\ UNCHANGED createvars

\* Lines 827-828: DELETE the lock row and commit.
Release(p) ==
    /\ pc[p] = "release"
    /\ CanWrite(p)
    /\ order_locks' = DeleteLock(order_locks, order_id[p])
    /\ Goto(p, "clear", 1)
    /\ UNCHANGED <<orders, writer, txn, order_id, obs, statsvars>>
    /\ UNCHANGED <<synced, createvars>>

\* Lines 839-844: close, cache.clear(), return success.
ClearAndReturn(p) ==
    /\ pc[p] = "clear"
    /\ cache' = <<>>
    /\ Return(p, Accepted)
    /\ UNCHANGED <<dbvars, order_id, obs, now, rpc, rval, robs, found>>
    /\ synced' = TRUE
    /\ UNCHANGED createvars

\* Lines 829-830: a statement of the guarded region (lines 791-828) raises;
\* the handler rolls the connection back.
Fault(p) ==
    /\ pc[p] \in {"read", "update", "recheck", "release"}
    /\ IF writer = p
       THEN writer' = NoCaller /\ txn' = NoTxn
       ELSE UNCHANGED <<writer, txn>>
    /\ Goto(p, "handler", -1)
    /\ obs' = [obs EXCEPT ![p].env = "plain"]
    /\ UNCHANGED <<orders, order_locks, order_id, statsvars>>
    /\ UNCHANGED <<synced, createvars>>

\* Lines 831-837: DELETE the lock row, commit, close, return 500.
Handler(p) ==
    /\ pc[p] = "handler"
    /\ CanWrite(p)
    /\ order_locks' = DeleteLock(order_locks, order_id[p])
    /\ Return(p, InternalErr)
    /\ UNCHANGED <<orders, writer, txn, order_id, obs, statsvars>>
    /\ UNCHANGED <<synced, createvars>>

\* Lines 831-837 when the handler's own DELETE or commit raises as well
\* (`except: pass`): nothing is written; close, return 500.
HandlerFails(p) ==
    /\ pc[p] = "handler"
    /\ Return(p, InternalErr)
    /\ UNCHANGED <<dbvars, order_id, obs, statsvars>>
    /\ UNCHANGED <<synced, createvars>>

\* --------------------------------------------- lifecycle calls on an order
\* Each runs one UPDATE/DELETE and commits on its own connection.
WriteOrders(new) ==
    /\ CanWrite(NoCaller)
    /\ orders' = new
    /\ obs' = ObsAfterWrite(new)
    /\ UNCHANGED <<order_locks, writer, txn, pc, order_id, cleaner_id, rowcount, result>>

\* _complete_order
CompleteOrder(o) ==
    /\ WriteOrders(SetStatus(orders, o, "completed"))
    /\ UNCHANGED statsvars
    /\ synced' = StaysSynced(orders')
    /\ UNCHANGED createvars

\* _cancel_order
CancelOrder(o) ==
    /\ WriteOrders(SetStatus(orders, o, "cancelled"))
    /\ UNCHANGED statsvars
    /\ synced' = StaysSynced(orders')
    /\ UNCHANGED createvars

\* _delete_order
DeleteOrder(o) ==
    /\ WriteOrders([i \in DOMAIN orders \ {o} |-> orders[i]])
    /\ UNCHANGED statsvars
    /\ synced' = StaysSynced(orders')
    /\ UNCHANGED createvars

\* The request bodies of PUT /api/orders/<id>: a status and a cleaner_id (each
\* may be absent), or neither and another column (text_notes) or a price that
\* fails the price check, or nothing.
UpdateInputs ==
    [status : {""} \cup valid_statuses \cup {"bogus"},
     cleaner_id : {NoCleaner} \cup DOMAIN cleaners,
     other : {"none"}]
    \cup [status : {""}, cleaner_id : {NoCleaner}, other : {"text_notes", "bad_price"}]

\* UPDATE orders SET status = ?, assigned_cleaner_id = ? WHERE id = ?
ApplyUpdate(ords, o, d) ==
    IF o \notin DOMAIN ords THEN ords
    ELSE [ords EXCEPT ![o] =
            [@ EXCEPT !.status = IF d.status # "" THEN d.status ELSE @,
                      !.assigned_cleaner_id = IF d.cleaner_id # NoCleaner THEN d.cleaner_id ELSE @]]

\* _update_order: 400 on a bad status or price, no statement when the body
\* names no column, else one UPDATE, commit and cache.clear().
UpdateOrder(o) ==
    \E d \in UpdateInputs :
       /\ d.status = "" \/ d.status \in valid_statuses
       /\ d.other # "bad_price"
       /\ d.status # "" \/ d.cleaner_id # NoCleaner \/ d.other = "text_notes"
       /\ WriteOrders(ApplyUpdate(orders, o, d))
       /\ cache' = <<>>
       /\ synced' = TRUE
       /\ UNCHANGED <<now, rpc, rval, robs, found>>
       /\ UNCHANGED createvars

\* -------------------------------------------------------------- Read Cache
FreshNever(entry, t) == FALSE
FreshAlways(entry, t) == TRUE
Fresh(entry, t) == (t - entry.timestamp) * TickStep < ttl

\* GET /api/stats, lines 139-143: cache.get("stats")
StatsGet(r) ==
    /\ rpc[r] \in {"idle", "cached"}
    /\ IF cache # <<>> /\ Fresh(cache[1], now)
       THEN /\ rval' = [rval EXCEPT ![r] = <<cache[1].value>>]
            /\ robs' = [robs EXCEPT ![r] = <<get_stats(orders)>>]
            /\ rpc' = [rpc EXCEPT ![r] = "cached"]
            /\ found' = [found EXCEPT ![r] = ""]
            /\ UNCHANGED cache
       ELSE /\ cache' = <<>>
            /\ rpc' = [rpc EXCEPT ![r] = "query"]
            /\ rval' = [rval EXCEPT ![r] = <<>>]
            /\ robs' = [robs EXCEPT ![r] = <<>>]
            /\ found' = [found EXCEPT ![r] = IF cache = <<>> THEN "absent" ELSE "expired"]
    /\ UNCHANGED <<dbvars, pc, order_id, cleaner_id, rowcount, result, obs, now>>
    /\ UNCHANGED <<synced, createvars>>

\* line 144: stats = self.repo.get_stats()
StatsQuery(r) ==
    /\ rpc[r] = "query"
    /\ rval' = [rval EXCEPT ![r] = <<get_stats(orders)>>]
    /\ robs' = [robs EXCEPT ![r] = <<get_stats(orders)>>]
    /\ rpc' = [rpc EXCEPT ![r] = "set"]
    /\ UNCHANGED <<dbvars, pc, order_id, cleaner_id, rowcount, result, obs, cache, now, found>>
    /\ UNCHANGED <<synced, createvars>>

\* lines 145-146: cache.set("stats", stats); return stats
StatsSet(r) ==
    /\ rpc[r] = "set"
    /\ cache' = <<[value |-> rval[r][1], timestamp |-> now]>>
    /\ rpc' = [rpc EXCEPT ![r] = "idle"]
    /\ found' = [found EXCEPT ![r] = ""]
    /\ UNCHANGED <<dbvars, pc, order_id, cleaner_id, rowcount, result, obs, now, rval, robs>>
    /\ UNCHANGED <<synced, createvars>>

\* time.time() advances.
Tick ==
    /\ now < MaxTime
    /\ now' = now + 1
    /\ UNCHANGED <<dbvars, pc, order_id, cleaner_id, rowcount, result, obs, cache, rpc, rval, robs, found>>
    /\ UNCHANGED <<synced, createvars>>

\* ----------------------------------------------------------- _create_order
\* IdempotencyChecker.check, line 100: now - self._keys[key] < self._window
WindowNeverOpen(ks, key, t) == FALSE
WithinWindow(ks, key, t) == key \in DOMAIN ks /\ (t - ks[key]) * TickStep < window

\* IdempotencyChecker.cleanup, lines 106-109 (no caller in the program).
cleanup(ks, t) == [k \in {j \in DOMAIN ks : (t - ks[j]) * TickStep < window} |-> ks[k]]

\* The request returns r.
CreateReturn(c, r) ==
    /\ cpc' = [cpc EXCEPT ![c] = "done"]
    /\ cres' = [cres EXCEPT ![c] = r]

\* lines 716-723: validate_order, then the optional idempotency key. Ids are
\* handed out up to MaxOrderId: a request that can reach the INSERT is let in
\* while an id is left for it.
CreateEntry(c) ==
    /\ cpc[c] \in {"idle", "done"}
    /\ \E data \in CreateBodies :
          /\ (validate_order(data) = NoResult /\ data.property_id \in properties) =>
                next_id + Cardinality({d \in Creators : /\ cpc[d] \notin {"idle", "done"}
                                                       /\ cbody[d].property_id \in properties})
                    <= MaxOrderId
          /\ cbody' = [cbody EXCEPT ![c] = data]
          /\ IF validate_order(data) # NoResult
             THEN CreateReturn(c, validate_order(data))
             ELSE /\ cpc' = [cpc EXCEPT ![c] = IF data.key = "" THEN "select" ELSE "check"]
                  /\ cres' = [cres EXCEPT ![c] = NoResult]
    /\ UNCHANGED <<dbvars, claimvars, statsvars, synced, keys, next_id, cnow, seen>>

\* IdempotencyChecker.check, lines 98-101: read the clock, test the key.
CheckTest(c) ==
    /\ cpc[c] = "check"
    /\ cnow' = [cnow EXCEPT ![c] = now]
    /\ IF WithinWindow(keys, cbody[c].key, now)
       THEN CreateReturn(c, Duplicate)
       ELSE /\ cpc' = [cpc EXCEPT ![c] = "record"]
            /\ UNCHANGED cres
    /\ UNCHANGED <<dbvars, claimvars, statsvars, synced, keys, next_id, cbody, seen>>

\* IdempotencyChecker.check, lines 102-103: record the key, return True.
CheckRecord(c) ==
    /\ cpc[c] = "record"
    /\ keys' = [k \in DOMAIN keys \cup {cbody[c].key} |->
                    IF k = cbody[c].key THEN cnow[c] ELSE keys[k]]
    /\ seen' = [k \in DOMAIN seen \cup {cbody[c].key} |->
                    IF k = cbody[c].key THEN [passed |-> cnow[c], created |-> FALSE] ELSE seen[k]]
    /\ cpc' = [cpc EXCEPT ![c] = "select"]
    /\ UNCHANGED <<dbvars, claimvars, statsvars, synced, next_id, cbody, cnow, cres>>

\* lines 727-744: the property must exist; INSERT the open order, commit.
InsertOrder(c) ==
    /\ cpc[c] = "select"
    /\ IF cbody[c].property_id \notin properties
       THEN /\ CreateReturn(c, PropertyNotFound)
            /\ UNCHANGED <<dbvars, claimvars, synced, next_id, seen>>
       ELSE /\ WriteOrders([i \in DOMAIN orders \cup {next_id} |->
                              IF i = next_id THEN Row("open", NoCleaner, NULL) ELSE orders[i]])
            /\ next_id' = next_id + 1
            /\ seen' = [k \in DOMAIN seen |->
                           IF k = cbody[c].key THEN [seen[k] EXCEPT !.created = TRUE] ELSE seen[k]]
            /\ synced' = StaysSynced(orders')
            /\ cpc' = [cpc EXCEPT ![c] = "clear"]
            /\ UNCHANGED cres
    /\ UNCHANGED <<statsvars, keys, cbody, cnow>>

\* lines 747-749: self.cache.clear(); return the created id.
CreateClearAndReturn(c) ==
    /\ cpc[c] = "clear"
    /\ cache' = <<>>
    /\ synced' = TRUE
    /\ CreateReturn(c, Created)
    /\ UNCHANGED <<dbvars, claimvars, now, rpc, rval, robs, found, keys, next_id, cbody, cnow, seen>>

\* ------------------------------------------------------------------ restart
\* start.py: kill_old_process() kills the server at any point of the requests
\* in flight, start_server() builds a new CleaningAPI on the same database.
\* sqlite rolls the open write transaction back; cache and requests are gone.
Crash ==
    /\ \E p \in Callers : InFlight(p)
    /\ writer' = NoCaller
    /\ txn' = NoTxn
    /\ pc' = [p \in Callers |-> IF InFlight(p) THEN "idle" ELSE pc[p]]
    /\ result' = [p \in Callers |-> IF InFlight(p) THEN NoResult ELSE result[p]]
    /\ obs' = [p \in Callers |-> IF InFlight(p) THEN NoObs ELSE obs[p]]
    /\ cache' = <<>>
    /\ rpc' = [r \in Readers |-> "idle"]
    /\ rval' = [r \in Readers |-> <<>>]
    /\ robs' = [r \in Readers |-> <<>>]
    /\ found' = [r \in Readers |-> ""]
    /\ synced' = TRUE
    /\ keys' = <<>>
    /\ seen' = <<>>
    /\ cpc' = [c \in Creators |-> IF cpc[c] = "done" THEN "done" ELSE "idle"]
    /\ UNCHANGED <<orders, order_locks, order_id, cleaner_id, rowcount, now>>
    /\ UNCHANGED <<next_id, cbody, cnow, cres>>

\* ----------------------------------------------------------- specifications
Claim(p) ==
    \/ Entry(p)
    \/ Acquire(p)
    \/ ReadStatus(p)
    \/ Update(p)
    \/ Recheck(p)
    \/ Release(p)
    \/ ClearAndReturn(p)
    \/ Fault(p)
    \/ Handler(p)
    \/ HandlerFails(p)

Lifecycle(o) ==
    \/ CompleteOrder(o)
    \/ CancelOrder(o)
    \/ UpdateOrder(o)
    \/ DeleteOrder(o)

Stats(r) ==
    \/ StatsGet(r)
    \/ StatsQuery(r)
    \/ StatsSet(r)

Next ==
    \/ \E p \in Callers : Claim(p)
    \/ \E o \in OrderIds : Lifecycle(o)

Spec == Init /\ [][Next]_vars

\* Requests that pass the credential checks, one per caller, racing for the
\* open orders with nothing else running.
RaceEntry(p) ==
    /\ pc[p] = "idle"
    /\ \E o \in OrderIds, data \in ValidBodies : VerifyAccept(p, o, data)

\* Requests that pass the credential checks, any number per caller.
ValidEntry(p) ==
    /\ pc[p] \in {"idle", "done"}
    /\ \E o \in OrderIds, data \in ValidBodies : VerifyAccept(p, o, data)

ClaimSteps(p) ==
    \/ Acquire(p)
    \/ ReadStatus(p)
    \/ Update(p)
    \/ Recheck(p)
    \/ Release(p)
    \/ ClearAndReturn(p)

NextRace == \E p \in Callers : RaceEntry(p) \/ ClaimSteps(p)

SpecRace == Init /\ [][NextRace]_vars

\* The claim requests together with the /api/stats requests, a lifecycle call
\* that leaves the cache alone, and the clock.
NextCache ==
    \/ \E p \in Callers : ValidEntry(p) \/ ClaimSteps(p)
    \/ \E r \in Readers : Stats(r)
    \/ \E o \in OrderIds : CancelOrder(o)
    \/ Tick

SpecCache == Init /\ [][NextCache]_vars

\* The POST /api/orders requests and the clock.
Create(c) ==
    \/ CreateEntry(c)
    \/ CheckTest(c)
    \/ CheckRecord(c)
    \/ InsertOrder(c)
    \/ CreateClearAndReturn(c)

NextCreate ==
    \/ \E c \in Creators : Create(c)
    \/ Tick

SpecCreate == Init /\ [][NextCreate]_vars

\* The same in a long-running process: every request in flight takes its
\* next step, requests keep arriving while ids last, the clock runs.
SpecCreateFair ==
    /\ Init
    /\ [][NextCreate]_vars
    /\ \A c \in Creators : WF_vars(Create(c))
    /\ WF_vars(Tick)

\* The POST /api/orders requests as HTTPServer.serve_forever hands them to the
\* handler: one at a time, the next when the last has returned.
SerialEntry(c) ==
    /\ \A d \in Creators : cpc[d] \in {"idle", "done"}
    /\ CreateEntry(c)

NextSerial ==
    \/ \E c \in Creators :
          \/ SerialEntry(c)
          \/ CheckTest(c)
          \/ CheckRecord(c)
          \/ InsertOrder(c)
          \/ CreateClearAndReturn(c)
    \/ Tick

SpecSerial == Init /\ [][NextSerial]_vars

\* The claim requests with the server killed and restarted at any point.
\* Every request in flight takes its next step, requests keep arriving and
\* the clock runs.
NextCrash ==
    \/ \E p \in Callers : Entry(p) \/ ClaimSteps(p)
    \/ Crash
    \/ Tick

SpecCrash ==
    /\ Init
    /\ [][NextCrash]_vars
    /\ WF_vars(\E p \in Callers : Entry(p) \/ ClaimSteps(p))
    /\ WF_vars(Tick)

\* The claim requests with raised statements, and the server killed and
\* restarted at any point.
NextKill ==
    \/ \E p \in Callers : Claim(p)
    \/ Crash

SpecKill == Init /\ [][NextKill]_vars

\* The claim requests with any body, together with the /api/stats requests.
NextGuard ==
    \/ \E p \in Callers : Entry(p) \/ ClaimSteps(p)
    \/ \E r \in Readers : Stats(r)

SpecGuard == Init /\ [][NextGuard]_vars

\* ================================================================= claims
NotOpen == valid_statuses \ {"open"}
Returned(p) == pc[p] = "done"

\* C1: when two or more verify-accept requests by eligible workers with
\* correct codes race for the same open order, then once all have returned
\* exactly one of them got success and every other one got 409.
ExactlyOneWinner ==
    (\A p \in Callers : Returned(p)) =>
        \A o \in OrderIds :
            LET S == {p \in Callers : order_id[p] = o} IN
            S # {} =>
                \E w \in S : /\ result[w] = Accepted
                             /\ \A q \in S \ {w} : result[q].code = 409

\* Two requests overlapped: the loser met the winner's committed lock row.
RaceWitness ==
    /\ \A p \in Callers : Returned(p)
    /\ \E p, q \in Callers :
          /\ p # q
          /\ order_id[p] = order_id[q]
          /\ result[p] = Accepted
          /\ result[q] = BeingProcessed

\* C2: for every order, over any interleaving of verify-accept requests with
\* the lifecycle calls (complete, cancel, update), at most one request ever
\* returns success for that order.
AtMostOneClaimSucceeds ==
    \A p, q \in Callers :
        (p # q /\ Returned(p) /\ Returned(q) /\ result[p] = Accepted /\ result[q] = Accepted)
            => order_id[p] # order_id[q]

\* C3: a verify-accept request by an eligible worker that meets an order whose
\* status is accepted, arrived, completed or cancelled returns 409, and none
\* of its steps changes the orders table.
StateGuard ==
    [][\A p \in Callers :
          LET o == order_id[p] IN
          (/\ pc[p] \in {"acquire", "read"}
           /\ pc'[p] \notin {pc[p], "handler"}
           /\ o \in DOMAIN orders
           /\ orders[o].status \in NotOpen)
          => /\ orders' = orders
             /\ pc'[p] \in {"read", "done"}
             /\ pc'[p] = "done" => result'[p].code = 409]_vars

StateGuardWitness ==
    \E p \in Callers :
        /\ Returned(p)
        /\ result[p] = AlreadyTaken
        /\ order_id[p] \in DOMAIN orders
        /\ orders[order_id[p]].status = "cancelled"

\* C4: every verify-accept request that inserted a lock row has removed it
\* by the time it returns, on every exit path (success, 404, 409, 500); so
\* whenever no verify-accept request is in flight the lock table is empty.
LockReleasedOnReturn ==
    (\A p \in Callers : ~InFlight(p)) => order_locks = {}

\* C5: a verify-accept request by an eligible worker with the correct code
\* that begins after another request on the same order has failed (400, 404
\* or 409), while the order is open and no other request is in flight, and
\* runs undisturbed, returns success.
NextClaimSucceeds ==
    \A p \in Callers :
        (Returned(p) /\ obs[p].env = "after_failure") => result[p] = Accepted

\* C6: a lock row left behind by a server killed between the commit of the
\* claim and the release is eventually removed.
Abandoned(o) ==
    /\ o \in order_locks
    /\ \A p \in Callers : ~(InFlight(p) /\ order_id[p] = o)

AbandonedLockReclaimed ==
    \A o \in OrderIds : Abandoned(o) ~> (o \notin order_locks)

SuccessOnlyIfWritten ==
    [][\A p \in Callers :
          LET o == order_id[p] IN
          /\ (pc[p] = "recheck" /\ pc'[p] = "release")
                => /\ rowcount[p] = 1
                   /\ o \in DOMAIN orders'
                   /\ orders'[o].status = "accepted"
                   /\ orders'[o].assigned_cleaner_id = cleaner_id[p]
                   /\ orders'[o].assigned_at # NULL
          /\ (pc[p] = "recheck" /\ rowcount[p] = 0 /\ pc'[p] \notin {"recheck", "handler"})
                => (pc'[p] = "done" /\ result'[p].code = 409)
          /\ (result'[p] = Accepted /\ pc[p] # pc'[p]) => pc[p] = "clear"
          /\ (pc'[p] = "release" /\ pc[p] # "release") => pc[p] = "recheck"
          /\ (pc'[p] = "clear" /\ pc[p] # "clear") => pc[p] = "release"]_vars

SuccessWitness ==
    \E p \in Callers :
        /\ Returned(p) /\ result[p] = Accepted
        /\ order_id[p] \in DOMAIN orders
        /\ orders[order_id[p]].status = "accepted"
        /\ orders[order_id[p]].assigned_at # NULL

BadCredentialRejected ==
    /\ [](\A p \in Callers :
            obs[p].kind \in {"missing", "mismatch"} =>
                (Returned(p) /\ result[p].code = 400))
    /\ [][\A p \in Callers :
            (obs'[p] # obs[p] /\ obs'[p].kind \in {"missing", "mismatch"})
                => UNCHANGED <<dbvars, cache>>]_vars

BadCredentialWitness ==
    \E p, q \in Callers :
        /\ p # q
        /\ Returned(p) /\ obs[p].kind = "mismatch" /\ obs[p].at = "locked"
        /\ result[p] = InvalidCode
        /\ pc[q] = "release" /\ order_id[q] = order_id[p]
        /\ orders[order_id[q]].status = "accepted"

\* C11 (as stated): a verify-accept request naming a cleaner_id that is not in
\* the cleaners table gets the same response as one with a wrong code
\* (400 "Invalid code").
UnknownWorkerAsMismatch ==
    \A p \in Callers :
        (Returned(p) /\ obs[p].kind = "unknown") => result[p] = InvalidCode

\* C11 (amended): a verify-accept request naming a cleaner_id that is not in
\* the cleaners table returns 404 "Cleaner not found" in its first step and
\* writes nothing; a wrong code for a known cleaner returns 400 "Invalid code".
UnknownWorkerNotFound ==
    /\ [](\A p \in Callers :
            /\ obs[p].kind = "unknown" => (Returned(p) /\ result[p] = CleanerNotFound)
            /\ obs[p].kind = "mismatch" => (Returned(p) /\ result[p] = InvalidCode))
    /\ [][\A p \in Callers :
            (obs'[p] # obs[p] /\ obs'[p].kind = "unknown")
                => UNCHANGED <<dbvars, cache>>]_vars

UnknownWorkerWitness ==
    \E p, q \in Callers :
        /\ p # q
        /\ Returned(p) /\ obs[p].kind = "unknown" /\ result[p] = CleanerNotFound
        /\ Returned(q) /\ obs[q].kind = "mismatch" /\ result[q] = InvalidCode
        /\ order_id[p] = order_id[q]

\* C12: a verify-accept request that has inserted its lock row and finds no
\* order with its id returns 404 "Order not found" in that step; the step
\* creates no order row and leaves no lock row for that id.
AbsentOrderNotFound ==
    [][\A p \in Callers :
          LET o == order_id[p] IN
          (/\ pc[p] = "read"
           /\ o \notin DOMAIN txn.orders
           /\ pc'[p] \notin {"read", "handler"})
          => /\ pc'[p] = "done"
             /\ result'[p] = OrderNotFound
             /\ orders' = orders
             /\ o \notin DOMAIN orders'
             /\ o \notin order_locks'
             /\ writer' = NoCaller]_vars

AbsentOrderWitness ==
    \E p \in Callers :
        /\ Returned(p) /\ result[p] = OrderNotFound
        /\ obs[p].kind = "ok"
        /\ order_id[p] \notin DOMAIN orders
        /\ order_locks = {}

\* C13: in every reachable state of the orders table, an order's
\* assigned_cleaner_id is set if and only if its status is accepted, arrived
\* or completed.
AssignedIffTaken ==
    \A o \in DOMAIN orders :
        (orders[o].assigned_cleaner_id # NoCleaner)
            <=> (orders[o].status \in {"accepted", "arrived", "completed"})

\* C14: every change of an order's status is a step forward along
\* open -> accepted -> arrived -> completed, or a step to cancelled from a
\* status that is neither completed nor cancelled; a completed or cancelled
\* order never changes status again.
Rank(st) ==
    CASE st = "open" -> 0 [] st = "accepted" -> 1 [] st = "arrived" -> 2
      [] st = "completed" -> 3 [] OTHER -> 4

StatusMonotonic ==
    [][\A o \in DOMAIN orders \cap DOMAIN orders' :
          LET old == orders[o].status
              new == orders'[o].status IN
          old # new =>
             /\ old \notin {"completed", "cancelled"}
             /\ new = "cancelled" \/ Rank(old) < Rank(new)]_vars

\* C15: every write that changes what the cached stats are computed from (a
\* successful claim, an update, a completion, a cancellation, a deletion, a
\* creation) has emptied the cache by the time it returns: a lifecycle call,
\* which writes and returns in one step, leaves the cache empty when its
\* write changed the counts, and so does the step that returns a claim's
\* success.
CacheClearedByWrites ==
    [][/\ ((\A p \in Callers : pc'[p] = pc[p]) /\ get_stats(orders') # get_stats(orders))
            => cache' = <<>>
       /\ \A p \in Callers :
            (pc[p] # "done" /\ pc'[p] = "done" /\ result'[p] = Accepted) => cache' = <<>>]_vars


\* C16: once a write that clears the cache (claim, create, update) has
\* returned, and no change of the counts was committed since, a /api/stats
\* read that starts finds either no live cache entry or one that equals the
\* store's counts, whatever the /api/stats reads in flight did meanwhile.
ReadAfterWriteSeesStore ==
    (synced /\ cache # <<>> /\ Fresh(cache[1], now)) => cache[1].value = get_stats(orders)


\* C17: a /api/stats read that finds the "stats" entry in the cache (no clear
\* since it was set) before its ttl has elapsed returns the cached value and
\* leaves the entry alone, whatever the orders table holds by now.
CachedValueServed ==
    [][\A r \in Readers :
          (/\ rpc[r] \in {"idle", "cached"}
           /\ cache # <<>> /\ (now - cache[1].timestamp) * TickStep < ttl
           /\ <<rpc[r], rval[r], robs[r]>>' # <<rpc[r], rval[r], robs[r]>>)
          => (/\ rpc'[r] = "cached"
              /\ rval'[r] = <<cache[1].value>>
              /\ cache' = cache)]_vars

\* A read served from the cache after a cancel changed the counts.
CachedValueWitness ==
    \E r \in Readers :
       /\ rpc[r] = "cached"
       /\ rval[r] # robs[r]
       /\ cache # <<>> /\ rval[r] = <<cache[1].value>>
       /\ \E o \in DOMAIN orders : orders[o].status = "cancelled"


\* Two submissions whose idempotency checks ran less than a window apart.
SameKeyInWindow(c, d) ==
    /\ c # d
    /\ cbody[c].key # "" /\ cbody[c].key = cbody[d].key
    /\ (cnow[c] - cnow[d]) * TickStep < window
    /\ (cnow[d] - cnow[c]) * TickStep < window

\* C18: of two POST /api/orders submissions with the same idempotency key
\* within the window, exactly one creates an order and the other is rejected
\* with 409: never have both inserted an order, and when one was rejected as
\* a duplicate the other, once it has returned past the check, has created
\* its order.
OneOrderPerKey ==
    \A c, d \in Creators :
       SameKeyInWindow(c, d) =>
          /\ ~(cpc[c] = "clear" /\ cpc[d] = "clear")
          /\ (/\ cpc[c] = "done" /\ cres[c] = Duplicate
              /\ cpc[d] = "done" /\ cres[d].code \notin {400, 409})
             => cres[d] = Created

\* C20: IdempotencyChecker.check tests and records in one step: of two check
\* calls in flight with the same key, at most one has passed the test.
CheckIsAtomic ==
    \A c, d \in Creators :
       (c # d /\ cpc[c] = "record" /\ cpc[d] = "record") => cbody[c].key # cbody[d].key


\* The request got rowcount 1 from its INSERT OR IGNORE (line 785) and has not
\* yet deleted the lock row, rolled back or closed.
HoldsLock(p) == pc[p] \in {"read", "update", "recheck", "release"}

\* C19: at no instant do two verify-accept calls for the same order both hold
\* the lock of that order.
ClaimLockExclusive ==
    \A p, q \in Callers :
       (p # q /\ HoldsLock(p) /\ HoldsLock(q)) => order_id[p] # order_id[q]


\* C21: a check of a key returns False exactly when the last check of that
\* key that returned True read its clock less than the window before, and
\* True otherwise; a check that returns False leaves the map alone, and one
\* that returns True records its own clock.
CheckWithinWindow ==
    [][\A c \in Creators :
          LET k == cbody[c].key
              recent == k \in DOMAIN seen /\ (now - seen[k].passed) * TickStep < window
          IN /\ (cpc[c] = "check" /\ cpc'[c] # "check") =>
                   /\ (cpc'[c] = "done" /\ cres'[c] = Duplicate) <=> recent
                   /\ cpc'[c] = "record" <=> ~recent
                   /\ keys' = keys
             /\ (cpc[c] = "record" /\ cpc'[c] # "record") =>
                   /\ cpc'[c] = "select"
                   /\ keys' = [j \in DOMAIN keys \cup {k} |-> IF j = k THEN cnow[c] ELSE keys[j]]]_vars

\* A check passes a full window after the key was recorded and less than a
\* window after a duplicate of the key was rejected.
CheckWindowWitness ==
    \E c, d \in Creators :
       /\ c # d /\ cbody[c].key = cbody[d].key
       /\ cpc[d] = "done" /\ cres[d] = Duplicate /\ cnow[d] > 0
       /\ cpc[c] = "record" /\ cnow[c] > cnow[d]
       /\ (cnow[c] - cnow[d]) * TickStep < window


\* C22: the key map does not keep expired entries for ever: whenever it holds
\* an entry whose window has expired, it reaches a state in which a sweep has
\* left nothing to remove (the entry was removed or recorded anew).
ExpiredKeysSwept == (keys # cleanup(keys, now)) ~> (keys = cleanup(keys, now))


\* C23: Cache.get returns the value of the latest set while less than ttl has
\* passed since that set and leaves the entry (its timestamp too) as it is;
\* once ttl has passed it returns nothing and removes the entry, and with no
\* entry it returns nothing; cache.set stores the value with the clock of the
\* set.
CacheGetWithinTtl ==
    [][\A r \in Readers :
          /\ (/\ rpc[r] \in {"idle", "cached"}
              /\ <<rpc[r], rval[r], robs[r], found[r]>>' # <<rpc[r], rval[r], robs[r], found[r]>>)
             => IF cache # <<>> /\ (now - cache[1].timestamp) * TickStep < ttl
                THEN rpc'[r] = "cached" /\ rval'[r] = <<cache[1].value>> /\ cache' = cache
                ELSE rpc'[r] = "query" /\ rval'[r] = <<>> /\ cache' = <<>>
          /\ (rpc[r] = "set" /\ rpc'[r] # "set")
             => cache' = <<[value |-> rval[r][1], timestamp |-> now]>>]_vars

\* A get found the entry expired and removed it.
CacheExpiredWitness ==
    \E r \in Readers : rpc[r] = "query" /\ found[r] = "expired" /\ cache = <<>>


\* C24: whenever a POST /api/orders submission is rejected as a duplicate
\* (409), the submission that recorded its key within the window has created
\* an order; a submission that recorded the key and created nothing does not
\* make later ones fail.
DuplicateMeansCreated ==
    [][\A c \in Creators :
          (cpc[c] = "check" /\ cpc'[c] = "done" /\ cres'[c] = Duplicate)
             => (cbody[c].key \in DOMAIN seen /\ seen[cbody[c].key].created)]_vars


\* C25: a committed lock row of an order exists only when a verify-accept
\* request has committed that order as accepted, also after the server was
\* killed at any point of a request: a lock row becomes durable only in the
\* step that commits the order from open to accepted, and while no other
\* handler rewrites the order a locked order is an accepted one.
LockCommitsWithAccept ==
    /\ [](\A o \in order_locks : o \in DOMAIN orders /\ orders[o].status = "accepted")
    /\ [][\A o \in OrderIds :
            (o \notin order_locks /\ o \in order_locks') =>
               /\ o \in DOMAIN orders /\ orders[o].status = "open"
               /\ o \in DOMAIN orders' /\ orders'[o].status = "accepted"
               /\ \E p \in Callers :
                     /\ pc[p] = "recheck" /\ pc'[p] = "release" /\ order_id[p] = o
                     /\ orders'[o].assigned_cleaner_id = cleaner_id[p]]_vars

\* The server was killed between the commit of a claim and its release: the
\* lock row is in the table, no request is in flight, the order is accepted.
LockAfterKillWitness ==
    \E o \in order_locks :
       /\ \A p \in Callers : ~InFlight(p)
       /\ \E p \in Callers : pc[p] = "idle" /\ order_id[p] = o
       /\ orders[o].status = "accepted"


\* C26: the credential checks come before the lock: a verify-accept request
\* with a parameter missing, a cleaner_id that is no number, an unknown
\* cleaner or a wrong code is never at or past the INSERT into order_locks;
\* it returns 400 or 404 in its first step, and that step leaves the lock
\* table, the orders table, the open transaction and the cache as they were.
RejectedBeforeLock ==
    /\ [](\A p \in Callers : (obs[p] # NoObs /\ obs[p].kind # "ok") => ~InFlight(p))
    /\ [][\A p \in Callers :
            (obs'[p] # obs[p] /\ obs'[p].kind # "ok") =>
               /\ ~InFlight(p) /\ pc'[p] = "done"
               /\ result'[p] \in {RequiredErr, InvalidCleanerId, CleanerNotFound, InvalidCode}
               /\ UNCHANGED <<orders, order_locks, writer, txn, cache>>]_vars

\* A request with a cleaner_id that is no number was turned away while another
\* request held the lock of the order; the lock row and the cached stats are
\* in place.
RejectedBeforeLockWitness ==
    \E p, q \in Callers :
       /\ p # q
       /\ Returned(p) /\ result[p] = InvalidCleanerId /\ obs[p].at = "locked"
       /\ pc[q] = "release" /\ order_id[q] = order_id[p] /\ order_id[p] \in order_locks
       /\ cache # <<>>

====
